---- MODULE Spec2Model ----
(***************************************************************************)
(* Model of the discriminator plugin (src/src/discriminator.ts): the       *)
(* rewrite of INSERT and SELECT statement trees by one transformer per     *)
(* configured rule, folded over the rule list by the plugin.               *)
(*                                                                         *)
(* Statement trees are records tagged by `kind`, as the host's operation   *)
(* nodes are.  An absent (JavaScript undefined) child is the record Undef, *)
(* an absent name is the string Undefined.                                 *)
(***************************************************************************)
EXTENDS Naturals, Sequences, FiniteSets

VARIABLES
    transformers,       \* DiscriminatorPlugin.transformers: the rule of each transformer, in configured order
    throwOnUnsupported, \* DiscriminatorPluginOptions.throwOnUnsupported: "unset", "true" or "false"
    input,              \* args.node handed to transformQuery
    prev,               \* the node the last applied transformer received
    node,               \* the accumulator of the reduce in transformQuery
    idx,                \* how many transformers the reduce has applied
    thrown              \* whether a transformer threw (transformQuery returns nothing)

vars == <<transformers, throwOnUnsupported, input, prev, node, idx, thrown>>

----------------------------------------------------------------------------
(* Bounds of the model *)

MaxFroms == 2
MaxRules == 2

----------------------------------------------------------------------------
(* Operation nodes *)

Undefined == "undefined"

Undef == [kind |-> "undefined"]

IdentifierNode(name) == [kind |-> "IdentifierNode", name |-> name]

TableNode(name, schema) ==
    [kind |-> "TableNode",
     table |-> [kind |-> "SchemableIdentifierNode",
                identifier |-> IdentifierNode(name),
                schema |-> IF schema = Undefined THEN Undef ELSE IdentifierNode(schema)]]

AliasNode(n, alias) == [kind |-> "AliasNode", node |-> n, alias |-> IdentifierNode(alias)]

ColumnNode(column) == [kind |-> "ColumnNode", column |-> IdentifierNode(column)]

ReferenceNode(table, column) ==
    [kind |-> "ReferenceNode", table |-> table, column |-> ColumnNode(column)]

OperatorNode(operator) == [kind |-> "OperatorNode", operator |-> operator]

ValueNode(value) == [kind |-> "ValueNode", value |-> value]

FilterNode(left, operator, right) ==
    [kind |-> "FilterNode", left |-> left, op |-> OperatorNode(operator), right |-> right]

AndNode(left, right) == [kind |-> "AndNode", left |-> left, right |-> right]

OrNode(left, right) == [kind |-> "OrNode", left |-> left, right |-> right]

WhereNode(where) == [kind |-> "WhereNode", where |-> where]

FromNode(froms) == [kind |-> "FromNode", froms |-> froms]

SelectQueryNode(froms, where) ==
    [kind |-> "SelectQueryNode", from |-> FromNode(froms), where |-> where]

ValuesNode == [kind |-> "ValuesNode", values |-> <<ValueNode(7), ValueNode(1)>>]

ColumnsUndefined == [defined |-> FALSE, list |-> <<>>]

ColumnList(list) == [defined |-> TRUE, list |-> list]

OnConflictNode(columns, constraint, doNothing) ==
    [kind |-> "OnConflictNode", columns |-> columns,
     constraint |-> IF constraint = Undefined THEN Undef ELSE IdentifierNode(constraint),
     doNothing |-> doNothing]

InsertQueryNode(into, values, onConflict) ==
    [kind |-> "InsertQueryNode", into |-> into, values |-> values, onConflict |-> onConflict]

ErrorUnsupported ==
    [kind |-> "Error",
     message |-> "This type of ValuesNode is not supported by the DiscriminatorPlugin."]

----------------------------------------------------------------------------
(* Sequence helpers *)

RECURSIVE Concat(_)
Concat(ss) == IF ss = <<>> THEN <<>> ELSE Head(ss) \o Concat(Tail(ss))

SeqsUpTo(S, n) == UNION {[1..k -> S] : k \in 1..n}

----------------------------------------------------------------------------
(* Table matcher: test(tableName, schemaName?) of ./matcher, for patterns  *)
(* of an exact name and an optional exact schema.                          *)

TableMatcherTest(table, name, schema) ==
    /\ table.name = name
    /\ \/ table.schema = Undefined
       \/ schema # Undefined /\ table.schema = schema

----------------------------------------------------------------------------
(* Discriminator rules                                                     *)

Entry(column, value) == [column |-> column, value |-> value]

ColumnsValue(record) ==
    [factory |-> FALSE, value |-> record,
     fn |-> [InsertQueryNode |-> record, SelectQueryNode |-> record]]

ColumnsFactory(onInsert, onSelect) ==
    [factory |-> TRUE, value |-> <<>>,
     fn |-> [InsertQueryNode |-> onInsert, SelectQueryNode |-> onSelect]]

Discriminator(name, schema, columns) ==
    [table |-> [name |-> name, schema |-> schema], columns |-> columns]

\* callOrGet(columns, node): the record itself, or the factory applied to the node.
callOrGet(columns, n) ==
    IF columns.factory THEN columns.fn[n.kind] ELSE columns.value

\* {discriminator, throwOnUnsupported}: the configuration of one transformer.
DiscriminatorTransformerConfig(discriminator, flag) ==
    [discriminator |-> discriminator, throwOnUnsupported |-> flag]

----------------------------------------------------------------------------
(* DiscriminatorTransformer *)

SchemaName(table) == IF table.schema = Undef THEN Undefined ELSE table.schema.name

\* Mutant: an aliased table reference is resolved to its table.
FromTableResolvingAlias(from) ==
    IF from.kind = "TableNode"
    THEN <<[table |-> from.table.identifier.name, schema |-> SchemaName(from.table)]>>
    ELSE IF from.node.kind = "TableNode"
    THEN <<[table |-> from.node.table.identifier.name, schema |-> SchemaName(from.node.table)]>>
    ELSE <<>>

\* The flatMap over node.from.froms: one {table, schema} per direct table reference.
FromTable(from) ==
    IF from.kind = "TableNode"
    THEN <<[table |-> from.table.identifier.name, schema |-> SchemaName(from.table)]>>
    ELSE <<>>

fromTables(n) ==
    Concat([i \in 1..Len(n.from.froms) |-> FromTable(n.from.froms[i])])

\* The equality predicate synthesized for one column of one matching table.
EqNode(table, column, value) ==
    FilterNode(ReferenceNode(TableNode(table.table, table.schema), column), "=", ValueNode(value))

\* Mutant: the table matcher is not consulted.
TablePredicatesUnmatched(config, n, table) ==
    LET entries == callOrGet(config.discriminator.columns, n)
    IN  [j \in 1..Len(entries) |-> EqNode(table, entries[j].column, entries[j].value)]

TablePredicates(config, n, table) ==
    IF ~TableMatcherTest(config.discriminator.table, table.table, table.schema)
    THEN <<>>
    ELSE LET entries == callOrGet(config.discriminator.columns, n)
         IN  [j \in 1..Len(entries) |-> EqNode(table, entries[j].column, entries[j].value)]

\* Mutant: the existing WHERE is put first in the list.
eqNodesWhereFirst(config, n) ==
    LET tables == fromTables(n)
    IN  (IF n.where # Undef THEN <<n.where.where>> ELSE <<>>)
        \o Concat([i \in 1..Len(tables) |-> TablePredicates(config, n, tables[i])])

RECURSIVE MutantConjuncts(_)
MutantConjuncts(f) ==
    IF f.kind = "AndNode" THEN MutantConjuncts(f.left) \cup MutantConjuncts(f.right) ELSE {f}

\* Mutant: a predicate the WHERE already holds as a conjunct is not added again.
eqNodesOnce(config, n) ==
    LET tables == fromTables(n)
        all == Concat([i \in 1..Len(tables) |-> TablePredicates(config, n, tables[i])])
        held == IF n.where # Undef THEN MutantConjuncts(n.where.where) ELSE {}
    IN  SelectSeq(all, LAMBDA p : p \notin held)
        \o (IF n.where # Undef THEN <<n.where.where>> ELSE <<>>)

eqNodes(config, n) ==
    LET tables == fromTables(n)
    IN  Concat([i \in 1..Len(tables) |-> TablePredicates(config, n, tables[i])])
        \o (IF n.where # Undef THEN <<n.where.where>> ELSE <<>>)

\* eqNodes.reduce(...): the left fold into AndNodes, Undef for the empty list.
RECURSIVE ReduceAnd(_, _)
ReduceAnd(acc, rest) ==
    IF rest = <<>> THEN acc
    ELSE ReduceAnd(IF acc = Undef THEN Head(rest) ELSE AndNode(acc, Head(rest)), Tail(rest))

filterNode(config, n) == ReduceAnd(Undef, eqNodes(config, n))

\* Mutant: the discriminator's columns are put before the existing ones.
ConflictColumnsPrepended(config, n) ==
    LET entries == callOrGet(config.discriminator.columns, n)
    IN  ColumnList([j \in 1..Len(entries) |-> ColumnNode(entries[j].column)]
                   \o n.onConflict.columns.list)

\* The columns of the new conflict clause.
ConflictColumns(config, n) ==
    LET entries == callOrGet(config.discriminator.columns, n)
    IN  ColumnList(n.onConflict.columns.list
                   \o [j \in 1..Len(entries) |-> ColumnNode(entries[j].column)])

\* Mutant: a missing conflict clause is created.
newOnConflictInvented(config, n) ==
    LET base == IF n.onConflict = Undef
                THEN OnConflictNode(ColumnsUndefined, Undefined, TRUE)
                ELSE n.onConflict
        entries == callOrGet(config.discriminator.columns, n)
    IN  [base EXCEPT !.columns =
            ColumnList(base.columns.list
                       \o [j \in 1..Len(entries) |-> ColumnNode(entries[j].column)])]

newOnConflict(config, n) ==
    IF n.onConflict = Undef THEN Undef
    ELSE [n.onConflict EXCEPT !.columns = ConflictColumns(config, n)]

\* Mutant: an unset flag counts as false.
ThrowOnUnsupportedDefaultFalse(config) == config.throwOnUnsupported = "true"

ThrowOnUnsupported(config) ==
    IF config.throwOnUnsupported = "unset" THEN TRUE ELSE config.throwOnUnsupported = "true"

RECURSIVE transformNode(_, _)

\* Mutant: the children of a SELECT are not transformed.
SuperTransformSelectQueryShallow(config, n) == n

\* OperationNodeTransformer.transformSelectQuery: rebuild the node from its transformed children.
SuperTransformSelectQuery(config, n) ==
    [n EXCEPT !.from = transformNode(config, n.from),
              !.where = transformNode(config, n.where)]

\* OperationNodeTransformer.transformInsertQuery.
SuperTransformInsertQuery(config, n) ==
    [n EXCEPT !.into = transformNode(config, n.into),
              !.values = transformNode(config, n.values),
              !.onConflict = transformNode(config, n.onConflict)]

transformSelectQuery(config, originalNode) ==
    LET n == SuperTransformSelectQuery(config, originalNode)
        f == filterNode(config, n)
    IN  IF f = Undef THEN n ELSE [n EXCEPT !.where = WhereNode(f)]

transformInsertQuery(config, originalNode) ==
    LET n == SuperTransformInsertQuery(config, originalNode)
    IN  IF ~TableMatcherTest(config.discriminator.table,
                             n.into.table.identifier.name, SchemaName(n.into.table))
        THEN n
        ELSE IF n.values.kind # "ValuesNode"
        THEN IF ThrowOnUnsupported(config) THEN ErrorUnsupported ELSE n
        ELSE [n EXCEPT !.onConflict = newOnConflict(config, n)]

\* OperationNodeTransformer.transformNode: dispatch on the node's kind; the
\* default methods rebuild a node from its transformed children.
transformNode(config, n) ==
    CASE n.kind = "SelectQueryNode" -> transformSelectQuery(config, n)
      [] n.kind = "InsertQueryNode" -> transformInsertQuery(config, n)
      [] n.kind = "FromNode" ->
            [n EXCEPT !.froms = [i \in 1..Len(n.froms) |-> transformNode(config, n.froms[i])]]
      [] n.kind = "AliasNode" -> [n EXCEPT !.node = transformNode(config, n.node)]
      [] n.kind = "WhereNode" -> [n EXCEPT !.where = transformNode(config, n.where)]
      [] n.kind \in {"AndNode", "OrNode"} ->
            [n EXCEPT !.left = transformNode(config, n.left),
                      !.right = transformNode(config, n.right)]
      [] n.kind = "FilterNode" ->
            [n EXCEPT !.left = transformNode(config, n.left),
                      !.right = transformNode(config, n.right)]
      [] OTHER -> n

----------------------------------------------------------------------------
(* DiscriminatorPlugin *)

\* Mutant: the transformers are applied from the last to the first.
TransformerReversed(i) ==
    DiscriminatorTransformerConfig(transformers[Len(transformers) + 1 - i], throwOnUnsupported)

\* The constructor: one transformer per configured rule, each given the plugin's flag.
Transformer(i) == DiscriminatorTransformerConfig(transformers[i], throwOnUnsupported)

----------------------------------------------------------------------------
(* Inputs *)

SubSelect == SelectQueryNode(<<TableNode("orders", Undefined)>>, Undef)

FromItems ==
    { TableNode("orders", Undefined),
      TableNode("users", Undefined),
      TableNode("orders", "tenant_a"),
      AliasNode(TableNode("orders", Undefined), "o"),
      AliasNode(SubSelect, "s") }

WhereAnd ==
    WhereNode(AndNode(
        FilterNode(ReferenceNode(TableNode("orders", Undefined), "tenant_id"), "=", ValueNode(1)),
        FilterNode(ReferenceNode(Undef, "id"), "=", ValueNode(7))))

WhereSub ==
    WhereNode(OrNode(
        FilterNode(ReferenceNode(Undef, "id"), "=", ValueNode(7)),
        FilterNode(ReferenceNode(Undef, "id"), "in", SubSelect)))

Wheres == {Undef, WhereAnd, WhereSub}

Selects == {SelectQueryNode(f, w) : f \in SeqsUpTo(FromItems, MaxFroms), w \in Wheres}

OnConflicts ==
    { Undef,
      OnConflictNode(ColumnsUndefined, "orders_pk", TRUE),
      OnConflictNode(ColumnList(<<ColumnNode("id")>>), Undefined, FALSE),
      OnConflictNode(ColumnList(<<ColumnNode("id"), ColumnNode("tenant_id")>>), Undefined, TRUE) }

Inserts ==
    {InsertQueryNode(t, v, c) :
        t \in {TableNode("orders", Undefined), TableNode("users", Undefined),
               TableNode("orders", "tenant_a")},
        v \in {ValuesNode, Undef, SubSelect},
        c \in OnConflicts}

Statements == Selects \cup Inserts

RuleTenant == Discriminator("orders", Undefined, ColumnsValue(<<Entry("tenant_id", 1)>>))

RuleFactory ==
    Discriminator("orders", Undefined,
        ColumnsFactory(<<Entry("region", 2), Entry("deleted", 0)>>,
                       <<Entry("deleted", 0), Entry("region", 2)>>))

RuleSchema == Discriminator("orders", "tenant_a", ColumnsValue(<<Entry("tenant_id", 1)>>))

RuleEmpty == Discriminator("orders", Undefined, ColumnsValue(<<>>))

Rules == {RuleTenant, RuleFactory, RuleSchema, RuleEmpty}

----------------------------------------------------------------------------
(* The state machine: DiscriminatorPlugin.transformQuery, one step of its  *)
(* reduce at a time.                                                       *)

Init ==
    /\ transformers \in {<<>>} \cup SeqsUpTo(Rules, MaxRules)
    /\ throwOnUnsupported \in {"unset", "true", "false"}
    /\ input \in Statements
    /\ prev = input
    /\ node = input
    /\ idx = 0
    /\ thrown = FALSE

\* transformer.transformNode(node) returns: the reduce goes on with its result.
TransformReturns ==
    /\ ~thrown
    /\ idx < Len(transformers)
    /\ LET r == transformNode(Transformer(idx + 1), node)
       IN  /\ r.kind # "Error"
           /\ node' = r
    /\ prev' = node
    /\ idx' = idx + 1
    /\ UNCHANGED <<transformers, throwOnUnsupported, input, thrown>>

\* transformer.transformNode(node) throws: transformQuery ends without a result.
TransformThrows ==
    /\ ~thrown
    /\ idx < Len(transformers)
    /\ transformNode(Transformer(idx + 1), node).kind = "Error"
    /\ thrown' = TRUE
    /\ UNCHANGED <<transformers, throwOnUnsupported, input, prev, node, idx>>

Next == TransformReturns \/ TransformThrows

Spec == Init /\ [][Next]_vars

\* transformQuery has returned `node`.
Returned == ~thrown /\ idx = Len(transformers)

----------------------------------------------------------------------------
(* Vocabulary of the properties, stated without the transformer's own      *)
(* operators.                                                              *)

\* The rule of the transformer applied last, and whether one has been applied.
Stepped == idx >= 1

Rule == transformers[idx]

IsSelect(n) == n.kind = "SelectQueryNode"

IsInsert(n) == n.kind = "InsertQueryNode"

Matches(rule, t) ==
    TableMatcherTest(rule.table, t.table.identifier.name,
                     IF t.table.schema = Undef THEN Undefined ELSE t.table.schema.name)

\* The positions of the FROM list holding a direct table reference the rule matches.
MatchingDirect(rule, sel) ==
    {i \in 1..Len(sel.from.froms) :
        sel.from.froms[i].kind = "TableNode" /\ Matches(rule, sel.from.froms[i])}

\* column = value, qualified to the table reference t.
Equality(t, entry) ==
    [kind |-> "FilterNode",
     left |-> [kind |-> "ReferenceNode", table |-> t, column |-> ColumnNode(entry.column)],
     op |-> [kind |-> "OperatorNode", operator |-> "="],
     right |-> [kind |-> "ValueNode", value |-> entry.value]]

\* The predicates a rule is expected to synthesize for a SELECT: by FROM-list
\* position, then by the mapping's iteration order.
RECURSIVE PredicatesUpTo(_, _, _)
PredicatesUpTo(rule, sel, i) ==
    IF i = 0 THEN <<>>
    ELSE PredicatesUpTo(rule, sel, i - 1) \o
         (IF i \in MatchingDirect(rule, sel)
          THEN LET entries == IF rule.columns.factory
                              THEN rule.columns.fn["SelectQueryNode"]
                              ELSE rule.columns.value
               IN  [j \in 1..Len(entries) |-> Equality(sel.from.froms[i], entries[j])]
          ELSE <<>>)

ExpectedPredicates(rule, sel) == PredicatesUpTo(rule, sel, Len(sel.from.froms))

\* (c1 AND c2 AND ... AND cn), associated to the left, of a non-empty list.
RECURSIVE AndChain(_)
AndChain(cs) ==
    IF Len(cs) = 1 THEN cs[1]
    ELSE [kind |-> "AndNode", left |-> AndChain(SubSeq(cs, 1, Len(cs) - 1)), right |-> cs[Len(cs)]]

\* The conjuncts of a predicate tree, left to right.
RECURSIVE Conjuncts(_)
Conjuncts(f) ==
    IF f.kind = "AndNode" THEN Conjuncts(f.left) \o Conjuncts(f.right) ELSE <<f>>

WhereConjuncts(sel) == IF sel.where = Undef THEN <<>> ELSE Conjuncts(sel.where.where)

\* The last conjunct of a chain built from k predicates and one more.
LastOfChain(f, k) == IF k = 0 THEN f ELSE f.right

\* The SELECT nodes below a node, outermost ones, in traversal order.
RECURSIVE Subqueries(_)
Subqueries(n) ==
    CASE n.kind = "SelectQueryNode" -> <<n>>
      [] n.kind = "FromNode" -> Concat([i \in 1..Len(n.froms) |-> Subqueries(n.froms[i])])
      [] n.kind = "AliasNode" -> Subqueries(n.node)
      [] n.kind = "WhereNode" -> Subqueries(n.where)
      [] n.kind \in {"AndNode", "OrNode", "FilterNode"} -> Subqueries(n.left) \o Subqueries(n.right)
      [] OTHER -> <<>>

NestedSelects(n) ==
    CASE n.kind = "SelectQueryNode" -> Subqueries(n.from) \o Subqueries(n.where)
      [] n.kind = "InsertQueryNode" -> Subqueries(n.values)
      [] OTHER -> Subqueries(n)

\* A node with every SELECT below it blanked out.
Opaque == [kind |-> "SelectQueryNode", from |-> Undef, where |-> Undef]

RECURSIVE Blank(_)
Blank(n) ==
    CASE n.kind = "SelectQueryNode" -> Opaque
      [] n.kind = "FromNode" -> [n EXCEPT !.froms = [i \in 1..Len(n.froms) |-> Blank(n.froms[i])]]
      [] n.kind = "AliasNode" -> [n EXCEPT !.node = Blank(n.node)]
      [] n.kind = "WhereNode" -> [n EXCEPT !.where = Blank(n.where)]
      [] n.kind \in {"AndNode", "OrNode", "FilterNode"} ->
            [n EXCEPT !.left = Blank(n.left), !.right = Blank(n.right)]
      [] OTHER -> n

Skeleton(n) ==
    CASE n.kind = "SelectQueryNode" -> [n EXCEPT !.from = Blank(n.from), !.where = Blank(n.where)]
      [] n.kind = "InsertQueryNode" -> [n EXCEPT !.values = Blank(n.values)]
      [] OTHER -> Blank(n)

\* Whether some SELECT below n has a direct FROM table the rule matches.
NestedMatch(rule, n) ==
    \E k \in 1..Len(NestedSelects(n)) : MatchingDirect(rule, NestedSelects(n)[k]) # {}

\* n as it stands after the rewrite of its nested SELECTs only.
SameButNested(rule, before, after) ==
    /\ Skeleton(after) = Skeleton(before)
    /\ ~NestedMatch(rule, before) => after = before

----------------------------------------------------------------------------
(* C1 *)

C1Case ==
    /\ Stepped /\ IsSelect(prev)
    /\ prev.where # Undef
    /\ MatchingDirect(Rule, prev) # {}

\* C1 as stated: one transformer turns a SELECT with WHERE W and matching direct
\* tables into WHERE (P1 AND ... AND Pk AND W), the Pi in FROM-list order then
\* mapping order, W itself the last conjunct.
C1_AsStated ==
    C1Case =>
        node.where = WhereNode(AndChain(ExpectedPredicates(Rule, prev) \o <<prev.where.where>>))

\* C1 amended: the WHERE is the chain (P1 AND ... AND Pk AND W'), the Pi as
\* above, where the last conjunct W' is W with its nested SELECTs rewritten
\* (W itself when no SELECT inside W has a matching direct FROM table).
C1_WhereChain ==
    C1Case =>
        LET E == ExpectedPredicates(Rule, prev)
            last == LastOfChain(node.where.where, Len(E))
        IN  /\ node.where = WhereNode(AndChain(E \o <<last>>))
            /\ SameButNested(Rule, prev.where.where, last)

C1_Witness ==
    /\ C1Case
    /\ Cardinality(MatchingDirect(Rule, prev)) = 2
    /\ Len(ExpectedPredicates(Rule, prev)) = 4
    /\ prev.where = WhereAnd
    /\ node.where.where.right = prev.where.where

----------------------------------------------------------------------------
(* C2 *)

\* Every table reference a statement names: its target, its FROM items (direct
\* or aliased), and those of the SELECTs that are its FROM items or value source.
OwnTables(n) ==
    IF IsInsert(n) THEN {n.into}
    ELSE {n.from.froms[i] : i \in {j \in 1..Len(n.from.froms) : n.from.froms[j].kind = "TableNode"}}
         \cup {n.from.froms[i].node :
                 i \in {j \in 1..Len(n.from.froms) :
                          n.from.froms[j].kind = "AliasNode"
                          /\ n.from.froms[j].node.kind = "TableNode"}}

SourceTables(n) ==
    OwnTables(n)
    \cup (IF IsInsert(n)
          THEN (IF IsSelect(n.values) THEN OwnTables(n.values) ELSE {})
          ELSE UNION {OwnTables(n.from.froms[i].node) :
                        i \in {j \in 1..Len(n.from.froms) :
                                 n.from.froms[j].kind = "AliasNode"
                                 /\ IsSelect(n.from.froms[j].node)}})

\* Whether the statement itself (not a SELECT nested in it) is in the rule's scope.
OwnMatch(rule, n) ==
    IF IsInsert(n) THEN Matches(rule, n.into) ELSE MatchingDirect(rule, n) # {}

\* C2 as stated: a statement whose target / source tables do not match the
\* rule is returned structurally equal to the input.
C2_AsStated ==
    (Stepped /\ \A t \in SourceTables(prev) : ~Matches(Rule, t)) => node = prev

\* C2 amended: a statement whose own target (INSERT) or direct FROM tables
\* (SELECT) do not match the rule changes only inside its nested SELECTs, and
\* is returned equal to the input when no nested SELECT has a matching direct
\* FROM table either.
C2_Unmatched ==
    (Stepped /\ ~OwnMatch(Rule, prev)) => SameButNested(Rule, prev, node)

C2_Witness ==
    /\ Stepped /\ ~OwnMatch(Rule, prev)
    /\ IsSelect(prev) /\ prev.where = WhereAnd
    /\ \E i \in 1..Len(prev.from.froms) : prev.from.froms[i] = TableNode("orders", Undefined)
    /\ Rule = RuleSchema
    /\ node = prev

----------------------------------------------------------------------------
(* C3 *)

C3Case ==
    /\ Stepped /\ IsInsert(prev)
    /\ Matches(Rule, prev.into)
    /\ prev.values.kind = "ValuesNode"
    /\ prev.onConflict # Undef

RuleColumnsOnInsert(rule) ==
    LET entries == IF rule.columns.factory THEN rule.columns.fn["InsertQueryNode"]
                   ELSE rule.columns.value
    IN  [j \in 1..Len(entries) |-> ColumnNode(entries[j].column)]

----------------------------------------------------------------------------
(* C4 *)

\* C4: an INSERT without a conflict clause never gains one, whatever the rule
\* list and whether or not its table matches.
C4_NoConflictAdded ==
    (IsInsert(input) /\ input.onConflict = Undef) => (IsInsert(node) /\ node.onConflict = Undef)

C4_Witness ==
    /\ IsInsert(input) /\ input.onConflict = Undef
    /\ input.values.kind = "ValuesNode"
    /\ Returned /\ Len(transformers) = 2
    /\ \A i \in 1..2 : Matches(transformers[i], input.into)
                       /\ RuleColumnsOnInsert(transformers[i]) # <<>>

----------------------------------------------------------------------------
(* C5 *)

\* The next transformer faces an INSERT into a table its rule matches whose
\* value source is not a ValuesNode.
C5Pending ==
    /\ ~thrown /\ idx < Len(transformers)
    /\ IsInsert(node)
    /\ Matches(transformers[idx + 1], node.into)
    /\ node.values.kind # "ValuesNode"

\* What that transformer makes of it: a statement, or the error it raises.
C5Outcome == transformNode(Transformer(idx + 1), node)

\* The last transformer returned from such an INSERT.
C5Passed ==
    /\ Stepped /\ IsInsert(prev)
    /\ Matches(Rule, prev.into)
    /\ prev.values.kind # "ValuesNode"

\* C5 as stated: with throwOnUnsupported = false such an INSERT is returned
\* unchanged; with true, or unset, the transformer raises and returns nothing.
C5_AsStated ==
    /\ C5Pending =>
          IF throwOnUnsupported = "false"
          THEN C5Outcome.kind # "Error"
          ELSE C5Outcome = ErrorUnsupported
    /\ C5Passed => (throwOnUnsupported = "false" /\ node = prev)

\* C5 amended: with throwOnUnsupported = false such an INSERT is returned with
\* its target, its conflict clause and the shape of its value source unchanged,
\* only the SELECTs nested in it rewritten (so equal to the input when no
\* nested SELECT has a matching direct FROM table); with true, or unset, the
\* transformer raises and returns nothing.
C5_Unsupported ==
    /\ C5Pending =>
          IF throwOnUnsupported = "false"
          THEN SameButNested(transformers[idx + 1], node, C5Outcome)
          ELSE C5Outcome = ErrorUnsupported
    /\ C5Passed => (throwOnUnsupported = "false" /\ SameButNested(Rule, prev, node))
    /\ thrown => (throwOnUnsupported # "false" /\ ~Returned)

C5_Witness ==
    /\ thrown /\ throwOnUnsupported = "unset"
    /\ IsInsert(node) /\ node.values = Undef
    /\ Matches(transformers[idx + 1], node.into)

----------------------------------------------------------------------------
(* C6 *)

\* The predicates of the rules i..1 in that order, each rule's group in
\* FROM-list order.
RECURSIVE PredicatesLastFirst(_, _)
PredicatesLastFirst(sel, i) ==
    IF i = 0 THEN <<>>
    ELSE ExpectedPredicates(transformers[i], sel) \o PredicatesLastFirst(sel, i - 1)

\* The predicates of the rules 1..i in that order.
RECURSIVE PredicatesFirstFirst(_, _)
PredicatesFirstFirst(sel, i) ==
    IF i = 0 THEN <<>>
    ELSE PredicatesFirstFirst(sel, i - 1) \o ExpectedPredicates(transformers[i], sel)

\* The conjuncts of the final WHERE are `expected` followed by those of the
\* original WHERE, the latter changed at most inside their nested SELECTs.
FinalChainIs(expected) ==
    LET got == WhereConjuncts(node)
        orig == WhereConjuncts(input)
    IN  /\ Len(got) = Len(expected) + Len(orig)
        /\ SubSeq(got, 1, Len(expected)) = expected
        /\ \A k \in 1..Len(orig) : Skeleton(got[Len(expected) + k]) = Skeleton(orig[k])

C6Case == Returned /\ IsSelect(input)

\* C6 as stated: the final AND-chain holds rule 1's predicates, then rule 2's,
\* and so on, the original WHERE last.
C6_AsStated ==
    C6Case => FinalChainIs(PredicatesFirstFirst(input, Len(transformers)))

\* C6 amended: the final AND-chain holds the predicates of the rules in the
\* reverse of the configured order (the last rule's first, rule 1's just before
\* the original WHERE), each rule's group in FROM-list order, the original
\* WHERE last.
C6_ReverseRuleOrder ==
    C6Case => FinalChainIs(PredicatesLastFirst(input, Len(transformers)))

C6_Witness ==
    /\ C6Case
    /\ transformers = <<RuleTenant, RuleFactory>>
    /\ input.from.froms = <<TableNode("users", Undefined), TableNode("orders", Undefined)>>
    /\ input.where = WhereAnd
    /\ Len(WhereConjuncts(node)) = 5

----------------------------------------------------------------------------
(* C7 *)

C7Case ==
    /\ Returned /\ IsSelect(input)
    /\ Len(transformers) = 2 /\ transformers[1] = transformers[2]
    /\ MatchingDirect(transformers[1], input) # {}

\* C7 as stated: the same rule applied twice leaves two copies of each of its
\* predicates in the WHERE, and the original WHERE once.
C7_AsStated ==
    C7Case =>
        LET E == ExpectedPredicates(transformers[1], input)
        IN  WhereConjuncts(node) = E \o E \o WhereConjuncts(input)

\* C7 amended: the same rule applied twice yields the chain
\* (P AND (P AND W')), P the chain of the rule's predicates, so two copies of
\* each, and W' the original WHERE present once, changed only in that its own
\* nested SELECTs were rewritten twice as well (W' is the original WHERE when
\* it has no nested SELECT with a matching direct FROM table).
C7_TwoCopies ==
    C7Case =>
        LET E == ExpectedPredicates(transformers[1], input)
        IN  /\ FinalChainIs(E \o E)
            /\ ~NestedMatch(transformers[1], input) =>
                  WhereConjuncts(node) = E \o E \o WhereConjuncts(input)
            /\ (E # <<>> /\ input.where # Undef) =>
                  /\ node.where.where.left = AndChain(E)
                  /\ node.where.where.right.left = AndChain(E)
                  /\ Skeleton(node.where.where.right.right) = Skeleton(input.where.where)
            /\ (E # <<>> /\ input.where = Undef) =>
                  node.where = WhereNode(AndNode(AndChain(E), AndChain(E)))

C7_Witness ==
    /\ C7Case
    /\ transformers[1] = RuleTenant
    /\ input.where = WhereAnd
    /\ Len(WhereConjuncts(node)) = 4
    /\ node.where.where.right.right = input.where.where

----------------------------------------------------------------------------
(* C8 *)

AllAliased(sel) == \A i \in 1..Len(sel.from.froms) : sel.from.froms[i].kind = "AliasNode"

\* The number of predicates the last transformer put in front of the WHERE.
Synthesized == Len(WhereConjuncts(node)) - Len(WhereConjuncts(prev))

----------------------------------------------------------------------------
(* C9 *)

C9Case ==
    /\ Stepped
    /\ OwnMatch(Rule, prev)
    /\ Rule.columns.value = <<>> /\ ~Rule.columns.factory

\* C9, for the statements the transformer returns: a rule with an empty column
\* mapping returns every INSERT and every SELECT on a matching table equal to
\* its input.
C9_EmptyMappingPassthrough == C9Case => node = prev

----------------------------------------------------------------------------
(* C10 *)

\* What a rule makes of a SELECT that has no SELECT nested in it.
RewrittenLeaf(rule, sel) ==
    LET cs == ExpectedPredicates(rule, sel)
              \o (IF sel.where = Undef THEN <<>> ELSE <<sel.where.where>>)
    IN  IF cs = <<>> THEN sel
        ELSE [sel EXCEPT !.where = [kind |-> "WhereNode", where |-> AndChain(cs)]]

\* C10: every SELECT nested in the statement (in a WHERE expression, behind an
\* alias in FROM, as the value source of an INSERT) is rewritten as a top-level
\* SELECT would be, whether or not the enclosing statement's table matches.
\* (The nested SELECTs of the model have no SELECT nested in them.)
C10_NestedRewritten ==
    Stepped =>
        LET before == NestedSelects(prev)
            after == NestedSelects(node)
        IN  /\ Len(after) = Len(before)
            /\ \A k \in 1..Len(before) : after[k] = RewrittenLeaf(Rule, before[k])

C10_Witness ==
    /\ Stepped /\ IsInsert(prev)
    /\ prev.into = TableNode("users", Undefined)
    /\ prev.values = SubSelect
    /\ Rule = RuleFactory
    /\ Len(WhereConjuncts(node.values)) = 2

====
